---- MODULE Spec2Model ----
(***************************************************************************)
(* Super Simple Stock Market (sssm/sssm.py): Stock / CommonStock /         *)
(* PreferredStock valuation, Trade records and the Exchange ledger with    *)
(* its time-windowed volume weighted price and all share index.            *)
(*                                                                         *)
(* Numbers: Python's true division yields floats; the model computes the   *)
(* same quotients exactly, as normalised fractions (num/den).  The n-th    *)
(* root taken by all_share_index is kept symbolically: a value             *)
(* [num, den, degree] denotes (num/den) ** (1/degree).                     *)
(* Strings are sequences of ASCII codes, so that str.upper() and the       *)
(* string ordering used by sorted() are computed, not assumed.             *)
(* None is the empty tuple <<>>, an optional value x is <<x>>.             *)
(***************************************************************************)
EXTENDS Integers, Sequences, FiniteSets

VARIABLES now, trades, stock, last, recorded

vars == <<now, trades, stock, last, recorded>>

----------------------------------------------------------------------------
(* Bounds of the model *)

MaxTrades == 2
MaxDuration == 1
MaxDividend == 2
MaxParValue == 2
MaxStockPrice == 2

\* trades are recorded at the first instants only, and the clock is capped
\* late enough for every recorded trade to leave every window
RecordTimes == {0, 1}
MaxClock == MaxDuration + 2

----------------------------------------------------------------------------
(* Symbols: "TEA", "tea", "POP", "pOp" as ASCII codes *)

TEA == <<84, 69, 65>>
tea == <<116, 101, 97>>
POP == <<80, 79, 80>>
pOp == <<112, 79, 112>>

RawSymbols == {TEA, tea, POP, pOp}

\* str.upper() on ASCII text
Upper(symbol) ==
    [i \in DOMAIN symbol |->
        IF symbol[i] \in 97..122 THEN symbol[i] - 32 ELSE symbol[i]]

\* Python's str ordering (lexicographic by code point): a < b
RECURSIVE StrLess(_, _)
StrLess(a, b) ==
    IF b = <<>> THEN FALSE
    ELSE IF a = <<>> THEN TRUE
    ELSE IF Head(a) # Head(b) THEN Head(a) < Head(b)
    ELSE StrLess(Tail(a), Tail(b))

----------------------------------------------------------------------------
(* Numbers *)

Abs(x) == IF x < 0 THEN -x ELSE x

RECURSIVE Gcd(_, _)
Gcd(a, b) == IF b = 0 THEN a ELSE Gcd(b, a % b)

\* the outcome of a call: a number, None, or a raised exception
NoneResult == [kind |-> "None", num |-> 0, den |-> 1, degree |-> 1]
ZeroDivisionError == [kind |-> "ZeroDivisionError", num |-> 0, den |-> 1, degree |-> 1]
NotImplementedError == [kind |-> "NotImplementedError", num |-> 0, den |-> 1, degree |-> 1]

\* the number n/d (d # 0), in lowest terms with a positive denominator
Number(n, d) ==
    LET g == Gcd(Abs(n), Abs(d))
        s == IF d < 0 THEN -1 ELSE 1
    IN  [kind |-> "value", num |-> (s * n) \div g, den |-> (s * d) \div g, degree |-> 1]

\* Python's  a / b  on two numbers given as fractions
TrueDiv(an, ad, bn, bd) ==
    IF bn = 0 THEN ZeroDivisionError ELSE Number(an * bd, ad * bn)

\* Python's  x ** (1 / n)  for n >= 1, kept symbolically
Root(x, n) == [x EXCEPT !.degree = n]

Mul(x, y) == Number(x.num * y.num, x.den * y.den)

----------------------------------------------------------------------------
(* Stock, CommonStock, PreferredStock *)

\* Stock.__init__: the symbol is coerced to uppercase
Stock(kind, symbol, last_dividend, par_value, fixed_dividend) ==
    [kind |-> kind,
     symbol |-> Upper(symbol),
     last_dividend |-> last_dividend,
     par_value |-> par_value,
     fixed_dividend |-> fixed_dividend]

\* CommonStock.dividend_yield
CommonDividendYield(self, price) ==
    TrueDiv(self.last_dividend, 1, price, 1)

\* mutant: a missing fixed_dividend falls back to the last dividend
PreferredYieldFallsBack(self, price) ==
    IF self.fixed_dividend # <<>>
    THEN TrueDiv(self.fixed_dividend[1] * self.par_value, 1, price, 1)
    ELSE TrueDiv(self.last_dividend, 1, price, 1)

\* PreferredStock.dividend_yield
PreferredDividendYield(self, price) ==
    IF self.fixed_dividend # <<>>
    THEN TrueDiv(self.fixed_dividend[1] * self.par_value, 1, price, 1)
    ELSE Number(0, 1)

\* dividend_yield, dispatched on the class of the stock
dividend_yield(self, price) ==
    CASE self.kind = "CommonStock" -> CommonDividendYield(self, price)
      [] self.kind = "PreferredStock" -> PreferredDividendYield(self, price)
      [] OTHER -> NotImplementedError

\* Stock.pe_ratio: 1 / self.dividend_yield(price); an exception raised by
\* dividend_yield propagates
pe_ratio(self, price) ==
    LET y == dividend_yield(self, price)
    IN  IF y.kind # "value" THEN y ELSE TrueDiv(1, 1, y.num, y.den)

----------------------------------------------------------------------------
(* Trade *)

TradeTypes == {"buy", "sell"}

\* Trade.__init__: the timestamp is the clock reading at construction
Trade(stk, quantity, action, price, clock) ==
    [stock |-> stk,
     quantity |-> quantity,
     action |-> action,
     price |-> price,
     timestamp |-> clock]

RECURSIVE SumPriceQuantity(_)
SumPriceQuantity(ts) ==
    IF ts = <<>> THEN 0
    ELSE Head(ts).price * Head(ts).quantity + SumPriceQuantity(Tail(ts))

RECURSIVE SumQuantity(_)
SumQuantity(ts) ==
    IF ts = <<>> THEN 0 ELSE Head(ts).quantity + SumQuantity(Tail(ts))

\* mutant: a zero total quantity yields 0 instead of raising
VwpZeroWhenNoQuantity(ts) ==
    IF SumQuantity(ts) = 0
    THEN Number(0, 1)
    ELSE TrueDiv(SumPriceQuantity(ts), 1, SumQuantity(ts), 1)

\* mutant: quantities are signed by TradeType.value (buy = 1, sell = -1)
RECURSIVE SumSignedQuantity(_)
SumSignedQuantity(ts) ==
    IF ts = <<>> THEN 0
    ELSE (IF Head(ts).action = "sell" THEN -Head(ts).quantity ELSE Head(ts).quantity)
         + SumSignedQuantity(Tail(ts))

VwpSigned(ts) ==
    TrueDiv(SumPriceQuantity(ts), 1, SumSignedQuantity(ts), 1)

\* Trade.volume_weighted_price
volume_weighted_price(ts) ==
    TrueDiv(SumPriceQuantity(ts), 1, SumQuantity(ts), 1)

----------------------------------------------------------------------------
(* Exchange *)

\* mutant: deque.appendleft
RecordTradeLeft(ledger, trade) == <<trade>> \o ledger

\* Exchange.record_trade: deque.append
record_trade(ledger, trade) == Append(ledger, trade)

\* mutant: > for >=
InWindowStrict(trade, reading, duration) == trade.timestamp > reading - duration

\* mutant: the cutoff is not applied
InWindowNoCutoff(trade, reading, duration) == trade.timestamp >= 0

\* trade.timestamp >= datetime.utcnow() - timedelta(seconds=duration),
\* with utcnow() reading `reading`
InWindow(trade, reading, duration) == trade.timestamp >= reading - duration

\* mutant: the query symbol is not uppercased
MatchesCaseSensitive(trade, symbol) == trade.stock.symbol = symbol

\* the symbol test of price_by_stock
Matches(trade, symbol) == trade.stock.symbol = Upper(symbol)

\* the number of clock readings price_by_stock takes: `and` short-circuits,
\* so utcnow() is called once per trade whose symbol matches
PbsReads(ledger, symbol) ==
    Cardinality({i \in DOMAIN ledger : Matches(ledger[i], symbol)})

\* the list comprehension of price_by_stock, trade by trade: the clock
\* reading taken for the trade (if any) and whether the trade is kept
PbsScan(ledger, symbol, duration, readings) ==
    [i \in DOMAIN ledger |->
        IF Matches(ledger[i], symbol)
        THEN LET k == Cardinality({j \in 1..i : Matches(ledger[j], symbol)})
             IN  [read |-> <<readings[k]>>,
                  inc |-> InWindow(ledger[i], readings[k], duration)]
        ELSE [read |-> <<>>, inc |-> FALSE]]

\* the trades a scan keeps, in ledger order
RECURSIVE Kept(_, _)
Kept(ledger, scan) ==
    IF ledger = <<>> THEN <<>>
    ELSE (IF Head(scan).inc THEN <<Head(ledger)>> ELSE <<>>)
         \o Kept(Tail(ledger), Tail(scan))

\* Exchange.price_by_stock
price_by_stock(ledger, symbol, duration, readings) ==
    LET ts == Kept(ledger, PbsScan(ledger, symbol, duration, readings))
    IN  IF ts # <<>> THEN volume_weighted_price(ts) ELSE NoneResult

\* mutant: `if duration is not None:`
TruthyNotNone(duration) == duration # <<>>

\* `if duration:` is false for None and for 0
Truthy(duration) == duration # <<>> /\ duration[1] # 0

\* the clock readings all_share_index takes: one per trade when the
\* duration is truthy, none otherwise
AsiReads(ledger, duration) == IF Truthy(duration) THEN Len(ledger) ELSE 0

\* include(trade), trade by trade
AsiScan(ledger, duration, readings) ==
    [i \in DOMAIN ledger |->
        IF Truthy(duration)
        THEN [read |-> <<readings[i]>>,
              inc |-> InWindow(ledger[i], readings[i], duration[1])]
        ELSE [read |-> <<>>, inc |-> TRUE]]

\* sorted(..., key=attrgetter('stock.symbol')): a stable sort
RECURSIVE InsertBySymbol(_, _)
InsertBySymbol(t, sortedTs) ==
    IF sortedTs = <<>> THEN <<t>>
    ELSE IF StrLess(t.stock.symbol, Head(sortedTs).stock.symbol)
         THEN <<t>> \o sortedTs
         ELSE <<Head(sortedTs)>> \o InsertBySymbol(t, Tail(sortedTs))

RECURSIVE SortBySymbol(_)
SortBySymbol(ts) ==
    IF ts = <<>> THEN <<>>
    ELSE InsertBySymbol(ts[Len(ts)], SortBySymbol(SubSeq(ts, 1, Len(ts) - 1)))

\* mutant: every trade is a group of its own
GroupEachTrade(ts) == [i \in DOMAIN ts |-> <<ts[i]>>]

\* itertools.groupby(trades, key=attrgetter('stock.symbol')): the runs of
\* consecutive trades with equal key
RECURSIVE GroupBySymbol(_)
GroupBySymbol(ts) ==
    IF ts = <<>> THEN <<>>
    ELSE LET rest == GroupBySymbol(Tail(ts))
         IN  IF rest # <<>> /\ Head(rest)[1].stock.symbol = Head(ts).stock.symbol
             THEN <<<<Head(ts)>> \o Head(rest)>> \o Tail(rest)
             ELSE <<<<Head(ts)>>>> \o rest

\* reduce(mul, prices); an exception raised while the list of prices was
\* built has already propagated
RECURSIVE Product(_)
Product(prices) ==
    IF Len(prices) = 1 THEN Head(prices)
    ELSE Mul(Head(prices), Product(Tail(prices)))

\* Exchange.all_share_index
all_share_index(ledger, duration, readings) ==
    LET ts == SortBySymbol(Kept(ledger, AsiScan(ledger, duration, readings)))
    IN  IF ts # <<>>
        THEN LET groups == GroupBySymbol(ts)
                 prices == [g \in DOMAIN groups |-> volume_weighted_price(groups[g])]
             IN  IF \E g \in DOMAIN prices : prices[g].kind # "value"
                 THEN ZeroDivisionError
                 ELSE Root(Product(prices), Len(prices))
        ELSE NoneResult

----------------------------------------------------------------------------------------------------------------------------------------
(* The state machine *)

UpperSymbols == {TEA, POP}
Durations == 0..MaxDuration
OptDurations == {<<>>} \cup {<<d>> : d \in Durations}

\* the stocks traded on the exchange are built by the Stock constructor
ListedStock(symbol) == Stock("CommonStock", symbol, 0, 100, <<>>)

\* the readings of n successive utcnow() calls made by one query that
\* starts at clock value `clock`: the clock does not go back, and it may
\* tick once, before any of the readings, while the query runs
Readings(clock, n) ==
    IF clock < MaxClock
    THEN {[i \in 1..n |-> IF i < k THEN clock ELSE clock + 1] : k \in 1..(n + 1)}
    ELSE {[i \in 1..n |-> clock]}

ClockAfter(clock, readings) ==
    IF readings = <<>> THEN clock ELSE readings[Len(readings)]

Init ==
    /\ now = 0
    /\ trades = <<>>
    /\ recorded = <<>>
    /\ stock = ListedStock(TEA)
    /\ last = [op |-> "init"]

\* time passes
Tick ==
    /\ now < MaxClock
    /\ now' = now + 1
    /\ last' = [op |-> "tick"]
    /\ UNCHANGED <<trades, stock, recorded>>

\* exchange.record_trade(Trade(Stock(symbol, ...), quantity, action, price))
\* for a trade constructed `age` clock units before it is recorded
RecordTrade(symbols, quantities, actions, prices, ages) ==
    /\ Len(trades) < MaxTrades
    /\ now \in RecordTimes
    /\ \E symbol \in symbols, quantity \in quantities, action \in actions,
          price \in prices, age \in ages :
          /\ age <= now
          /\ LET trade == Trade(ListedStock(symbol), quantity, action, price, now - age)
             IN  /\ trades' = record_trade(trades, trade)
                 /\ recorded' = Append(recorded, trade)
    /\ last' = [op |-> "record_trade"]
    /\ UNCHANGED <<now, stock>>

\* exchange.price_by_stock(symbol, duration)
PriceByStock(symbols) ==
    /\ \E symbol \in symbols, duration \in Durations :
       \E readings \in Readings(now, PbsReads(trades, symbol)) :
          /\ last' = [op |-> "price_by_stock",
                      symbol |-> symbol,
                      duration |-> duration,
                      start |-> now,
                      readings |-> readings,
                      scan |-> PbsScan(trades, symbol, duration, readings),
                      result |-> price_by_stock(trades, symbol, duration, readings)]
          /\ now' = ClockAfter(now, readings)
    /\ UNCHANGED <<trades, stock, recorded>>

\* exchange.all_share_index(duration)
AllShareIndex ==
    /\ \E duration \in OptDurations :
       \E readings \in Readings(now, AsiReads(trades, duration)) :
          /\ last' = [op |-> "all_share_index",
                      duration |-> duration,
                      start |-> now,
                      readings |-> readings,
                      scan |-> AsiScan(trades, duration, readings),
                      result |-> all_share_index(trades, duration, readings)]
          /\ now' = ClockAfter(now, readings)
    /\ UNCHANGED <<trades, stock, recorded>>

\* stock = Stock(...) / CommonStock(...) / PreferredStock(...)
NewStock ==
    /\ \E kind \in {"Stock", "CommonStock", "PreferredStock"},
          symbol \in RawSymbols,
          last_dividend \in (-1)..MaxDividend,
          par_value \in 0..MaxParValue,
          fixed_dividend \in {<<>>} \cup {<<f>> : f \in 0..MaxDividend} :
          stock' = Stock(kind, symbol, last_dividend, par_value, fixed_dividend)
    /\ last' = [op |-> "Stock"]
    /\ UNCHANGED <<now, trades, recorded>>

\* stock.dividend_yield(price)
DividendYield ==
    /\ \E price \in (-1)..MaxStockPrice :
          last' = [op |-> "dividend_yield",
                   self |-> stock,
                   price |-> price,
                   result |-> dividend_yield(stock, price)]
    /\ UNCHANGED <<now, trades, stock, recorded>>

\* stock.pe_ratio(price)
PeRatio ==
    /\ \E price \in (-1)..MaxStockPrice :
          last' = [op |-> "pe_ratio",
                   self |-> stock,
                   price |-> price,
                   result |-> pe_ratio(stock, price)]
    /\ UNCHANGED <<now, trades, stock, recorded>>

\* The ledger scenario: trades on stocks constructed from symbols of any
\* case, of either direction, possibly constructed before they are recorded
Next ==
    \/ Tick
    \/ RecordTrade(RawSymbols, {1}, TradeTypes, {1}, {0, 1})
    \/ PriceByStock({TEA})
    \/ AllShareIndex

Spec == Init /\ [][Next]_vars

\* The price scenario: quantities (zero included) and prices vary
NextPrice ==
    \/ Tick
    \/ RecordTrade(UpperSymbols, {0, 1}, {"buy"}, {1, 2}, {0})
    \/ PriceByStock(UpperSymbols)

SpecPrice == Init /\ [][NextPrice]_vars

\* The index scenario
NextIndex ==
    \/ Tick
    \/ RecordTrade(UpperSymbols, {0, 1}, {"buy"}, {1, 2}, {0})
    \/ AllShareIndex

SpecIndex == Init /\ [][NextIndex]_vars

\* The query scenario: both queries, quantities of either sign
NextQuery ==
    \/ Tick
    \/ RecordTrade(UpperSymbols, {-1, 0, 1}, {"buy"}, {1}, {0})
    \/ PriceByStock(UpperSymbols)
    \/ AllShareIndex

SpecQuery == Init /\ [][NextQuery]_vars

\* The symbol scenario: stocks and queries with symbols of any case
NextCase ==
    \/ Tick
    \/ RecordTrade(RawSymbols, {1}, {"buy"}, {1, 2}, {0})
    \/ PriceByStock(RawSymbols)

SpecCase == Init /\ [][NextCase]_vars

\* The direction scenario: buys and sells
NextAction ==
    \/ Tick
    \/ RecordTrade(UpperSymbols, {1}, TradeTypes, {1, 2}, {0})
    \/ PriceByStock({TEA})
    \/ AllShareIndex

SpecAction == Init /\ [][NextAction]_vars

\* The stock scenario
NextStock ==
    \/ NewStock
    \/ DividendYield
    \/ PeRatio

SpecStock == Init /\ [][NextStock]_vars

\* The ageing scenario: the system clock keeps advancing
NextLive ==
    \/ Tick
    \/ RecordTrade(UpperSymbols, {1}, {"buy"}, {1, 2}, {0})
    \/ PriceByStock(UpperSymbols)
    \/ AllShareIndex

SpecLive == Init /\ [][NextLive]_vars /\ WF_vars(Tick)

----------------------------------------------------------------------------
(* Vocabulary of the properties *)

IsPbs == last.op = "price_by_stock"
IsAsi == last.op = "all_share_index"

\* sums over a set of ledger positions
RECURSIVE QuantityOf(_)
QuantityOf(S) ==
    IF S = {} THEN 0
    ELSE LET i == CHOOSE x \in S : TRUE
         IN  trades[i].quantity + QuantityOf(S \ {i})

RECURSIVE TurnoverOf(_)
TurnoverOf(S) ==
    IF S = {} THEN 0
    ELSE LET i == CHOOSE x \in S : TRUE
         IN  trades[i].price * trades[i].quantity + TurnoverOf(S \ {i})

\* r is the number turnover(S) / quantity(S)
IsVolumeWeightedPriceOf(r, S) ==
    /\ r.kind = "value"
    /\ r.degree = 1
    /\ r.den # 0
    /\ r.num * QuantityOf(S) = r.den * TurnoverOf(S)

\* the ledger positions whose trade matches the symbol of the last
\* price_by_stock call and was in the window when the call tested it
PbsInWindow ==
    {i \in DOMAIN trades :
        /\ trades[i].stock.symbol = Upper(last.symbol)
        /\ trades[i].timestamp >= last.scan[i].read[1] - last.duration}

----------------------------------------------------------------------------
(* C1 *)

\* C1 as stated: price_by_stock returns None when no ledger trade both
\* matches the symbol and is in the window, and otherwise returns the volume
\* weighted price of exactly the matching in-window trades.  ("now" is the
\* clock reading the call takes when it tests the trade.)
C1_ReturnsPriceOfMatching ==
    IsPbs =>
        IF PbsInWindow = {}
        THEN last.result = NoneResult
        ELSE IsVolumeWeightedPriceOf(last.result, PbsInWindow)

\* C1 amended: as above when the quantities of the matching in-window trades
\* do not sum to zero; when they do, the call raises ZeroDivisionError.
C1_ReturnsPriceOrRaises ==
    IsPbs =>
        IF PbsInWindow = {}
        THEN last.result = NoneResult
        ELSE IF QuantityOf(PbsInWindow) = 0
             THEN last.result = ZeroDivisionError
             ELSE IsVolumeWeightedPriceOf(last.result, PbsInWindow)

\* a call that kept one trade of the symbol, with a non-zero quantity, and
\* left out another trade of the ledger
C1_Witness ==
    /\ IsPbs
    /\ Cardinality(PbsInWindow) = 1
    /\ Len(trades) = 2
    /\ QuantityOf(PbsInWindow) # 0
    /\ last.result.kind = "value"

----------------------------------------------------------------------------
(* C2, C6 *)

\* the last all_share_index call was given a non-zero duration
AsiWindowed == last.duration # <<>> /\ last.duration[1] # 0

\* the ledger positions the last all_share_index call had to include
AsiInWindow ==
    {i \in DOMAIN trades :
        \/ ~AsiWindowed
        \/ trades[i].timestamp >= last.scan[i].read[1] - last.duration[1]}

\* the partition of the included trades by stored symbol
GroupSymbols == {trades[i].stock.symbol : i \in AsiInWindow}
GroupOf(symbol) == {i \in AsiInWindow : trades[i].stock.symbol = symbol}

RECURSIVE GroupQuantityProduct(_)
GroupQuantityProduct(symbols) ==
    IF symbols = {} THEN 1
    ELSE LET x == CHOOSE y \in symbols : TRUE
         IN  QuantityOf(GroupOf(x)) * GroupQuantityProduct(symbols \ {x})

RECURSIVE GroupTurnoverProduct(_)
GroupTurnoverProduct(symbols) ==
    IF symbols = {} THEN 1
    ELSE LET x == CHOOSE y \in symbols : TRUE
         IN  TurnoverOf(GroupOf(x)) * GroupTurnoverProduct(symbols \ {x})

\* r is the n-th root of the product of the groups' volume weighted prices,
\* n the number of distinct symbols: r^n = product
IsGeometricMeanOfGroups(r) ==
    /\ r.kind = "value"
    /\ r.degree = Cardinality(GroupSymbols)
    /\ r.den # 0
    /\ r.num * GroupQuantityProduct(GroupSymbols)
         = r.den * GroupTurnoverProduct(GroupSymbols)

C6_ZeroOrNoneMeansAllTime ==
    IsAsi =>
        /\ \A i \in DOMAIN trades : last.scan[i].inc <=> i \in AsiInWindow
        /\ ~AsiWindowed =>
              /\ \A i \in DOMAIN trades : last.scan[i].inc
              /\ (last.result = NoneResult) <=> (trades = <<>>)

\* an all-time index (duration 0) over a trade older than the clock reading
C6_Witness ==
    /\ IsAsi
    /\ last.duration = <<0>>
    /\ \E i \in DOMAIN trades : trades[i].timestamp < last.start
    /\ last.result.kind = "value"

----------------------------------------------------------------------------
(* C3 *)

IsPrefix(s, t) == Len(s) <= Len(t) /\ SubSeq(t, 1, Len(s)) = s

\* C3: a new Exchange has an empty ledger; the ledger is always exactly the
\* sequence of the trades passed to record_trade, in call order; every
\* earlier ledger is a prefix of every later one.
C3_LedgerIsRecordedTrades ==
    /\ trades = <<>>
    /\ [](trades = recorded)
    /\ [][IsPrefix(trades, trades')]_vars

\* two different trades were recorded and a query has run since
C3_Witness ==
    /\ Len(trades) >= 2
    /\ trades[1] # trades[2]
    /\ (IsPbs \/ IsAsi)

----------------------------------------------------------------------------
(* C4 *)

\* two symbols that differ at most in the case of their letters
DifferOnlyInCase(a, b) ==
    /\ Len(a) = Len(b)
    /\ \A i \in DOMAIN a :
          \/ a[i] = b[i]
          \/ a[i] \in 65..90 /\ b[i] = a[i] + 32
          \/ a[i] \in 97..122 /\ b[i] = a[i] - 32

\* C4: on a ledger of trades on stocks built by the Stock constructor,
\* price_by_stock gives the same result for any two query symbols that
\* differ only in letter case, at the same clock reading and duration.
C4_LookupIgnoresCase ==
    (IsPbs /\ now = last.start) =>
        \A other \in RawSymbols :
            DifferOnlyInCase(other, last.symbol) =>
                price_by_stock(trades, other, last.duration,
                               [k \in 1..PbsReads(trades, other) |-> now])
                    = last.result

\* a lower-case query that found a trade of a stock constructed from a
\* symbol given in another case
C4_Witness ==
    /\ IsPbs
    /\ now = last.start
    /\ last.symbol = tea
    /\ last.result.kind = "value"

----------------------------------------------------------------------------
(* C5 *)

IsPeRatio == last.op = "pe_ratio"

\* C5: for a CommonStock or PreferredStock and a non-zero price, pe_ratio
\* is 1 / dividend_yield; it raises ZeroDivisionError when the yield is
\* zero, that is for a CommonStock with last_dividend 0 and for a
\* PreferredStock with fixed_dividend absent or 0, or par_value 0; the
\* stock is left unchanged.
C5_PeRatioIsInverseYield ==
    (IsPeRatio /\ last.price # 0 /\ stock.kind \in {"CommonStock", "PreferredStock"}) =>
        LET y == dividend_yield(stock, last.price)
            zero == \/ stock.kind = "CommonStock" /\ stock.last_dividend = 0
                    \/ /\ stock.kind = "PreferredStock"
                       /\ \/ stock.fixed_dividend = <<>>
                          \/ stock.fixed_dividend[1] = 0
                          \/ stock.par_value = 0
        IN  /\ y.kind = "value"
            /\ zero <=> (y.num = 0)
            /\ IF zero
               THEN last.result = ZeroDivisionError
               ELSE /\ last.result.kind = "value"
                    /\ last.result.degree = 1
                    /\ last.result.num * y.num = last.result.den * y.den
            /\ stock = last.self

\* pe_ratio raised on a PreferredStock without fixed_dividend
C5_Witness ==
    /\ IsPeRatio
    /\ last.price # 0
    /\ stock.kind = "PreferredStock"
    /\ stock.fixed_dividend = <<>>
    /\ stock.last_dividend # 0
    /\ last.result = ZeroDivisionError

----------------------------------------------------------------------------
(* C7 *)

\* C7: volume_weighted_price raises ZeroDivisionError on an empty sequence
\* and on quantities summing to zero; so price_by_stock and all_share_index
\* raise it (they return neither None nor 0) when trades are selected but a
\* symbol's quantities sum to zero; the ledger is left as it was.
C7_ZeroQuantityRaises ==
    /\ \A a \in 1..(Len(trades) + 1), b \in 0..Len(trades) :
          (a > b \/ QuantityOf(a..b) = 0) =>
              volume_weighted_price(SubSeq(trades, a, b)) = ZeroDivisionError
    /\ (IsPbs /\ PbsInWindow # {} /\ QuantityOf(PbsInWindow) = 0) =>
          last.result = ZeroDivisionError
    /\ (IsAsi /\ \E x \in GroupSymbols : QuantityOf(GroupOf(x)) = 0) =>
          last.result = ZeroDivisionError
    /\ trades = recorded

\* an index over two trades of one symbol whose non-zero quantities cancel
C7_Witness ==
    /\ IsAsi
    /\ Len(trades) = 2
    /\ \A i \in DOMAIN trades : i \in AsiInWindow /\ trades[i].quantity # 0
    /\ last.result = ZeroDivisionError
    /\ trades = recorded

----------------------------------------------------------------------------
(* C8 *)

\* the ledgers that differ from the ledger in the action fields only
ActionVariants ==
    {[i \in DOMAIN trades |-> [trades[i] EXCEPT !.action = a[i]]] :
        a \in [DOMAIN trades -> TradeTypes]}

\* C8: the direction of the trades has no effect: on a ledger that differs
\* in the action fields only, price_by_stock and all_share_index return the
\* same results, for the same arguments and clock readings.
C8_DirectionHasNoEffect ==
    /\ IsPbs =>
          \A other \in ActionVariants :
              price_by_stock(other, last.symbol, last.duration, last.readings)
                  = last.result
    /\ IsAsi =>
          \A other \in ActionVariants :
              all_share_index(other, last.duration, last.readings)
                  = last.result

\* a price over a buy and a sell
C8_Witness ==
    /\ IsPbs
    /\ Cardinality(PbsInWindow) = 2
    /\ trades[1].action # trades[2].action
    /\ last.result.kind = "value"

----------------------------------------------------------------------------
(* C9 *)

\* C9: within one call every trade is tested against one and the same
\* cutoff, even if the clock advances during the scan: there is an instant
\* T of the call such that the included trades are exactly the (matching)
\* trades with timestamp >= T - duration.
C9_SingleCutoffInstant ==
    /\ IsPbs =>
          \E T \in last.start..now :
              \A i \in DOMAIN trades :
                  trades[i].stock.symbol = Upper(last.symbol) =>
                      (last.scan[i].inc <=> trades[i].timestamp >= T - last.duration)
    /\ (IsAsi /\ AsiWindowed) =>
          \E T \in last.start..now :
              \A i \in DOMAIN trades :
                  last.scan[i].inc <=> trades[i].timestamp >= T - last.duration[1]

----------------------------------------------------------------------------
(* C10 *)

\* the trade is older than the window of `duration` seconds at `clock`
AgedOut(trade, clock, duration) == trade.timestamp < clock - duration

AllAgedOut(clock) ==
    \A i \in DOMAIN trades, d \in 1..MaxDuration : AgedOut(trades[i], clock, d)

\* the last call was a query with a positive duration d
WindowQuery(d) ==
    \/ IsPbs /\ last.duration = d
    \/ IsAsi /\ last.duration = <<d>>

\* the ledger positions the last query tested against its window
Tested ==
    {i \in DOMAIN trades : last.scan[i].read # <<>>}

\* C10: with a clock that only advances and a positive duration, a trade
\* once out of the window is out of it in every later call; the ledger
\* keeps its trades; once trades are no longer recorded (RecordTimes),
\* eventually, and from then on, every trade is out of every window, and
\* the calls made from then on return None.
C10_TradesAgeOutForGood ==
    /\ [][\A i \in DOMAIN trades, d \in 1..MaxDuration :
             AgedOut(trades[i], now, d) =>
                 /\ i \in DOMAIN trades'
                 /\ trades'[i] = trades[i]
                 /\ AgedOut(trades'[i], now', d)]_vars
    /\ [](\A d \in 1..MaxDuration : WindowQuery(d) =>
             \A i \in Tested :
                 /\ AgedOut(trades[i], last.start, d) => ~last.scan[i].inc
                 /\ ~last.scan[i].inc => AgedOut(trades[i], now, d))
    /\ [](\A d \in 1..MaxDuration :
             (WindowQuery(d) /\ AllAgedOut(last.start)) =>
                 last.result = NoneResult)
    /\ [](trades = recorded)
    /\ <>[](AllAgedOut(now) /\ trades = recorded)

\* a query on the symbol of a recorded trade, made after every trade had
\* left every window, returned None
C10_Witness ==
    /\ IsPbs
    /\ last.duration > 0
    /\ trades # <<>>
    /\ AllAgedOut(last.start)
    /\ \E i \in DOMAIN trades : trades[i].stock.symbol = Upper(last.symbol)
    /\ last.result = NoneResult

====
